---- MODULE Spec2Model ----
(***************************************************************************)
(* psmerge-rs: properties are fetched from the Parameter Store and from    *)
(* Secrets Manager, merged, turned into a nested template model, rendered  *)
(* and written out.  Strings whose characters matter (prefixes, names,     *)
(* keys, file contents) are sequences of one-character strings.            *)
(***************************************************************************)
EXTENDS Integers, Sequences, FiniteSets, TLC

None == "None"

(* Option<T> of a value that is not a plain string *)
Nothing == [some |-> FALSE]
Some(x) == [some |-> TRUE, v |-> x]

(* ---------------- bounds of the explored inputs ---------------- *)
MaxPages == 3        \* SpecPS: pages served in one run, all prefixes together
MaxSecrets == 2      \* SpecSM: secret identifiers in the list
MaxGetPages == 2     \* SpecGet: pages served in one run
MaxGetSecrets == 2   \* SpecGet: secret identifiers in the list
MaxKeyLen == 3       \* SpecBuild: characters in a key
MaxKeys == 3         \* SpecBuild: keys in the PropertyMap
MaxTemplates == 2    \* SpecMain: template specs of the run

SeqsUpTo(S, n) == UNION {[1..k -> S] : k \in 0..n}
NonEmptySeqsUpTo(S, n) == UNION {[1..k -> S] : k \in 1..n}

(* ---------------- maps (HashMap<String, String>) ---------------- *)
EmptyMap == [k \in {} |-> None]

MapInsert(m, k, v) == [x \in (DOMAIN m) \cup {k} |-> IF x = k THEN v ELSE m[x]]

RECURSIVE InsertAll(_, _, _)
InsertAll(m, src, todo) ==
  IF todo = {} THEN m
  ELSE LET k == CHOOSE x \in todo : TRUE
       IN InsertAll(MapInsert(m, k, src[k]), src, todo \ {k})

(* ---------------- get_parameterstore_properties ---------------- *)
Slash == "/"

strip_suffix(s) ==
  IF Len(s) > 0 /\ s[Len(s)] = Slash THEN SubSeq(s, 1, Len(s) - 1) ELSE s

prefix_with_slash(p) == strip_suffix(p) \o <<Slash>>

trim_prefix_keeps_separator(prefix, s) == SubSeq(s, Len(prefix) + 1, Len(s))

trim_prefix(prefix, s) == SubSeq(s, Len(prefix) + 2, Len(s))

VARIABLES prefixes, pages, psIdx, next_token, psData, psPc, psReqs,
          secrets, outcomes, smIdx, smData, smPc, smReqs, smWarn,
          gpPc, gpRes

psVars == <<prefixes, pages, psIdx, next_token, psData, psPc, psReqs>>
smVars == <<secrets, outcomes, smIdx, smData, smPc, smReqs, smWarn>>
gpVars == <<gpPc, gpRes>>

VARIABLES data, sorted_keys, bIdx, result, warnings, bPc

buildVars == <<data, sorted_keys, bIdx, result, warnings, bPc>>

VARIABLES fs, templates, dryrun, nobackup, verbosity, tIdx, mPc, mErr,
          oPc, hasher, pos, hash, cur, calls, diag

mainVars == <<templates, dryrun, nobackup, verbosity, tIdx, mPc, mErr>>
outVars == <<fs, oPc, hasher, pos, hash, cur, calls, diag>>

(* The page the service answers a request with: no cursor asks for the     *)
(* first page, the cursor handed out with page j asks for page j+1.         *)
PageNo(tok) == IF tok = Nothing THEN 1 ELSE tok.v + 1

ResponseName(path, e) == IF e.name = Nothing THEN Nothing ELSE Some(path \o e.name.v)

ResponseCursor(i, n) == IF n < Len(pages[i]) THEN Some(n) ELSE Nothing

(* for p in &parameters { ... data.insert(trim_prefix(prefix, name), value) } *)
RECURSIVE InsertEntries(_, _, _, _)
InsertEntries(acc, prefix, path, es) ==
  IF es = <<>> THEN acc
  ELSE LET e == Head(es)
           name == ResponseName(path, e)
       IN IF name = Nothing \/ e.value = None
            THEN InsertEntries(acc, prefix, path, Tail(es))
            ELSE InsertEntries(MapInsert(acc, trim_prefix(prefix, name.v), e.value),
                               prefix, path, Tail(es))

(* One pass of the pagination loop: send the request, insert the page's    *)
(* parameters, keep the cursor or go on to the next prefix.                *)
PSFetchOk ==
  /\ psPc = "run"
  /\ psIdx <= Len(prefixes)
  /\ LET prefix == strip_suffix(prefixes[psIdx])
         path == prefix_with_slash(prefixes[psIdx])
         n == PageNo(next_token)
         page == pages[psIdx][n]
         cursor == ResponseCursor(psIdx, n)
     IN /\ psReqs' = Append(psReqs, [idx |-> psIdx, path |-> path, token |-> next_token,
                                     failed |-> FALSE, cursor |-> cursor])
        /\ psData' = IF page.parameters = Nothing THEN psData
                     ELSE InsertEntries(psData, prefix, path, page.parameters.v)
        /\ IF cursor = Nothing
             THEN /\ next_token' = Nothing
                  /\ psIdx' = psIdx + 1
             ELSE /\ next_token' = cursor
                  /\ psIdx' = psIdx
  /\ UNCHANGED <<prefixes, pages, psPc>>

(* .send().await ... ? : the request fails and the function returns Err *)
PSFetchErr ==
  /\ psPc = "run"
  /\ psIdx <= Len(prefixes)
  /\ psReqs' = Append(psReqs, [idx |-> psIdx,
                               path |-> prefix_with_slash(prefixes[psIdx]),
                               token |-> next_token,
                               failed |-> TRUE, cursor |-> Nothing])
  /\ psPc' = "err"
  /\ UNCHANGED <<prefixes, pages, psIdx, next_token, psData>>

(* Ok(data) *)
PSReturn ==
  /\ psPc = "run"
  /\ psIdx > Len(prefixes)
  /\ psPc' = "ok"
  /\ UNCHANGED <<prefixes, pages, psIdx, next_token, psData, psReqs>>

(* ---------------- get_secretsmanager_properties ---------------- *)
(* for (k,jv) in map { match jv { Value::String(v) => data.insert(k, v), _ => warn } } *)
StringMembers(obj) == {k \in DOMAIN obj : obj[k].t = "string"}

ObjectInsert(acc, obj) ==
  [k \in (DOMAIN acc) \cup StringMembers(obj) |->
     IF k \in StringMembers(obj) THEN obj[k].v ELSE acc[k]]

ObjectWarnings(obj) == Cardinality((DOMAIN obj) \ StringMembers(obj))

IsResourceNotFoundNever(o) == FALSE

(* e.root_cause().downcast_ref::<ResourceNotFoundException>().is_some() *)
IsResourceNotFound(o) == o.kind = "notfound"

IsErr(o) == o.kind \in {"notfound", "error"}

SMFetch ==
  /\ smPc = "run"
  /\ smIdx <= Len(secrets)
  /\ smReqs' = Append(smReqs, secrets[smIdx])
  /\ LET o == outcomes[smIdx]
     IN IF IsErr(o)
          THEN IF IsResourceNotFound(o)
                 THEN /\ smIdx' = smIdx + 1
                      /\ UNCHANGED <<smData, smPc, smWarn>>
                 ELSE /\ smPc' = "err"
                      /\ UNCHANGED <<smData, smIdx, smWarn>>
          ELSE /\ smIdx' = smIdx + 1
               /\ smPc' = smPc
               /\ CASE o.kind = "nostring" ->
                         /\ smWarn' = smWarn + 1
                         /\ smData' = smData
                    [] o.kind = "notobject" ->
                         /\ smWarn' = smWarn + 1
                         /\ smData' = smData
                    [] o.kind = "object" ->
                         /\ smData' = ObjectInsert(smData, o.obj)
                         /\ smWarn' = smWarn + ObjectWarnings(o.obj)
  /\ UNCHANGED <<secrets, outcomes>>

SMReturn ==
  /\ smPc = "run"
  /\ smIdx > Len(secrets)
  /\ smPc' = "ok"
  /\ UNCHANGED <<secrets, outcomes, smIdx, smData, smReqs, smWarn>>

(* ---------------- merge_properties, get_properties ---------------- *)
RECURSIVE merge_properties(_)
merge_properties(properties) ==
  IF properties = <<>> THEN EmptyMap
  ELSE LET n == Len(properties)
           prop == properties[n]
       IN InsertAll(merge_properties(SubSeq(properties, 1, n - 1)), prop, DOMAIN prop)

MergeArgsSwapped(ps_data, sm_data) == <<sm_data, ps_data>>

(* vec![ps_data, sm_data] *)
MergeArgs(ps_data, sm_data) == <<ps_data, sm_data>>

Pending == [pending |-> TRUE]

(* what a join that resolves on the first error would do *)
GPJoinFirstError ==
  /\ gpPc = "join"
  /\ \/ psPc = "err"
     \/ smPc = "err"
     \/ psPc # "run" /\ smPc # "run"
  /\ gpPc' = "joined"
  /\ UNCHANGED <<gpRes, psVars, smVars, buildVars, mainVars, outVars>>

(* join!(ps_fut, sm_fut) resolves once both futures have resolved *)
GPJoin ==
  /\ gpPc = "join"
  /\ psPc # "run"
  /\ smPc # "run"
  /\ gpPc' = "joined"
  /\ UNCHANGED <<gpRes, psVars, smVars, buildVars, mainVars, outVars>>

(* ps_res?; sm_res?; merge_properties(vec![ps_data, sm_data]); Ok(data) *)
GPFinish ==
  /\ gpPc = "joined"
  /\ gpPc' = "done"
  /\ gpRes' = IF psPc = "err" THEN [pending |-> FALSE, ok |-> FALSE, err |-> "ps"]
              ELSE IF smPc = "err" THEN [pending |-> FALSE, ok |-> FALSE, err |-> "sm"]
              ELSE [pending |-> FALSE, ok |-> TRUE, data |-> merge_properties(MergeArgs(psData, smData))]
  /\ UNCHANGED <<psVars, smVars, buildVars, mainVars, outVars>>

(* ---------------- model.rs: build_template_model ---------------- *)
Dot == "."

(* byte order of the characters that occur in keys *)
Ord(c) == CASE c = "-" -> 45 [] c = "." -> 46 [] c = "a" -> 97 [] c = "b" -> 98

(* String's Ord: lexicographic by bytes, a proper prefix first *)
RECURSIVE StrLess(_, _)
StrLess(x, y) ==
  IF y = <<>> THEN FALSE
  ELSE IF x = <<>> THEN TRUE
  ELSE IF Head(x) = Head(y) THEN StrLess(Tail(x), Tail(y))
  ELSE Ord(Head(x)) < Ord(Head(y))

RECURSIVE SortedInsert(_, _)
SortedInsert(sorted, k) ==
  IF sorted = <<>> THEN <<k>>
  ELSE IF StrLess(k, Head(sorted)) THEN <<k>> \o sorted
  ELSE <<Head(sorted)>> \o SortedInsert(Tail(sorted), k)

SortOmitted(keys) == keys

(* sorted_keys.sort() *)
RECURSIVE Sort(_)
Sort(keys) == IF keys = <<>> THEN <<>> ELSE SortedInsert(Sort(Tail(keys)), Head(keys))

(* key.split('.') : always at least one segment, segments may be empty *)
RECURSIVE Split(_)
Split(s) ==
  IF s = <<>> THEN <<<<>>>>
  ELSE LET rest == Split(Tail(s))
       IN IF Head(s) = Dot THEN <<<<>>>> \o rest
          ELSE <<<<Head(s)>> \o Head(rest)>> \o Tail(rest)

(* path.join(".") *)
RECURSIVE Join(_)
Join(path) ==
  IF Len(path) = 1 THEN path[1] ELSE path[1] \o <<Dot>> \o Join(Tail(path))

(* A serde_json Value tree, as the function from the path of each node to   *)
(* the node: an object (Value::Object) or a string (Value::String).         *)
ObjectNode == [obj |-> TRUE]
StringNode(v) == [obj |-> FALSE, str |-> v]
EmptyDoc == [p \in {<<>>} |-> ObjectNode]

IsPrefixOf(p, q) == Len(p) <= Len(q) /\ SubSeq(q, 1, Len(p)) = p

(* m.insert(name, node): the slot's old value, a whole subtree, is dropped *)
NodeInsert(doc, p, node) ==
  [q \in {x \in DOMAIN doc : ~IsPrefixOf(p, x)} \cup {p} |-> IF q = p THEN node ELSE doc[q]]

WarnedSilently(doc, path) == [doc |-> doc, warn |-> <<>>]

WarnedOverriding(doc, path) ==
  [doc |-> NodeInsert(doc, <<path[1]>>, ObjectNode), warn |-> <<Join(path)>>]

(* eprintln!("WARNING: Key {} ignored ...", path.join(".")), object left as it is *)
Warned(doc, path) == [doc |-> doc, warn |-> <<Join(path)>>]

(* object is the node at path `at`; key_pos counts from 1 here *)
RECURSIVE insert_with_path(_, _, _, _, _)
insert_with_path(doc, at, path, key_pos, value) ==
  LET slot == Append(at, path[key_pos])
  IN IF key_pos = Len(path)
       THEN IF doc[at].obj
              THEN [doc |-> NodeInsert(doc, slot, StringNode(value)), warn |-> <<>>]
              ELSE Warned(doc, path)
       ELSE IF doc[at].obj
              THEN IF slot \in DOMAIN doc
                     THEN insert_with_path(doc, slot, path, key_pos + 1, value)
                     ELSE insert_with_path(NodeInsert(doc, slot, ObjectNode), slot, path,
                                           key_pos + 1, value)
              ELSE Warned(doc, path)

RECURSIVE Enumerations(_)
Enumerations(S) ==
  IF S = {} THEN {<<>>} ELSE UNION {{<<k>> \o e : e \in Enumerations(S \ {k})} : k \in S}

(* data.keys().cloned().collect() in the HashMap's order, then sort() *)
BuildStart ==
  /\ bPc = "start"
  /\ sorted_keys' \in {Sort(keys) : keys \in Enumerations(DOMAIN data)}
  /\ bIdx' = 1
  /\ result' = EmptyDoc
  /\ warnings' = <<>>
  /\ bPc' = "loop"
  /\ UNCHANGED data

(* one pass of: for key in &sorted_keys { ... insert_with_path(...) } *)
BuildInsert ==
  /\ bPc = "loop"
  /\ bIdx <= Len(sorted_keys)
  /\ LET key == sorted_keys[bIdx]
         r == insert_with_path(result, <<>>, Split(key), 1, data[key])
     IN /\ result' = r.doc
        /\ warnings' = warnings \o r.warn
  /\ bIdx' = bIdx + 1
  /\ UNCHANGED <<data, sorted_keys, bPc>>

BuildReturn ==
  /\ bPc = "loop"
  /\ bIdx > Len(sorted_keys)
  /\ bPc' = "done"
  /\ UNCHANGED <<data, sorted_keys, bIdx, result, warnings>>

(* ---------------- output.rs: hash_file, backup_file, output ---------------- *)
(* The buffer of hash_file, scaled down from 10240 bytes to the size of the *)
(* modelled files: what matters is how a file's length compares with it.    *)
BUFFER_SIZE == 2

BACKUP_SUFFIX == "~"

(* backup_path.push_str(BACKUP_SUFFIX) *)
BackupPath(path) == path \o <<BACKUP_SUFFIX>>

(* A file: its bytes and whether this process may open it for reading.      *)
File(bytes, readable) == Some([bytes |-> bytes, readable |-> readable])

ByteCode(b) == CASE b = "x" -> 1 [] b = "y" -> 2

(* Sha256 over the bytes fed to the hasher: collision-free, so modelled as  *)
(* an injective numbering of byte strings.                                  *)
RECURSIVE Digest(_)
Digest(bytes) == IF bytes = <<>> THEN 1 ELSE ByteCode(Head(bytes)) + 3 * Digest(Tail(bytes))

(* File::open(path) succeeds *)
CanOpen(path) == fs[path] # Nothing /\ fs[path].v.readable

(* what f.read(&mut contents) may return with `left` bytes before the end   *)
(* of the file: 0 only at the end, else any count up to the buffer's size   *)
ReadLengths(left) ==
  IF left = 0 THEN {0} ELSE 1..(IF left < BUFFER_SIZE THEN left ELSE BUFFER_SIZE)

(* if len == 0 || len < BUFFER_SIZE { break; } *)
ReadLoopEnds(len) == len = 0 \/ len < BUFFER_SIZE

Returned(res, err, post) == [cur EXCEPT !.res = res, !.err = err, !.post = post]

CurPath == cur.path
CurContents == cur.contents

(* hash_file: File::open *)
HashOpen ==
  /\ oPc = "hash_open"
  /\ IF CanOpen(CurPath)
       THEN /\ oPc' = "hash_read"
            /\ hasher' = <<>>
            /\ pos' = 0
            /\ hash' = Nothing
       ELSE /\ oPc' = "backup"
            /\ hash' = Nothing
            /\ UNCHANGED <<hasher, pos>>
  /\ UNCHANGED <<fs, cur, calls, diag, mainVars>>

(* hash_file: one pass of the read loop; after the loop the digest is taken *)
HashRead ==
  /\ oPc = "hash_read"
  /\ LET bytes == fs[CurPath].v.bytes
     IN \E len \in ReadLengths(Len(bytes) - pos) :
          /\ hasher' = hasher \o SubSeq(bytes, pos + 1, pos + len)
          /\ pos' = pos + len
          /\ IF ReadLoopEnds(len)
               THEN /\ hash' = Some(Digest(hasher'))
                    /\ oPc' = "compare"
               ELSE /\ hash' = hash
                    /\ oPc' = "hash_read"
  /\ UNCHANGED <<fs, cur, calls, diag, mainVars>>

(* hash_file: f.read(..)? fails; output adds "Error hashing file <path>" *)
HashReadErr ==
  /\ oPc = "hash_read"
  /\ oPc' = "idle"
  /\ cur' = Returned("err", [stage |-> "hash", path |-> Some(CurPath)], fs)
  /\ calls' = Append(calls, cur')
  /\ mPc' = "failed"
  /\ mErr' = cur'.err
  /\ UNCHANGED <<fs, hasher, pos, hash, diag, templates, dryrun, nobackup, verbosity, tIdx>>

(* output: if *content_hash == hash[..] { ...; return Ok(()) } *)
Compare ==
  /\ oPc = "compare"
  /\ IF Digest(CurContents) = hash.v
       THEN /\ oPc' = "idle"
            /\ diag' = IF verbosity > 0 THEN Append(diag, <<"unchanged", CurPath>>) ELSE diag
            /\ cur' = [Returned("ok", Nothing, fs) EXCEPT !.compared = TRUE]
            /\ calls' = Append(calls, cur')
            /\ tIdx' = tIdx + 1
       ELSE /\ oPc' = "backup"
            /\ cur' = [cur EXCEPT !.compared = TRUE]
            /\ UNCHANGED <<calls, diag, tIdx>>
  /\ UNCHANGED <<fs, hasher, pos, hash, templates, dryrun, nobackup, verbosity, mPc, mErr>>

BackupInverted ==
  /\ oPc = "backup"
  /\ IF nobackup /\ CanOpen(CurPath)
       THEN /\ fs' = [fs EXCEPT ![BackupPath(CurPath)] = fs[CurPath], ![CurPath] = Nothing]
            /\ cur' = [cur EXCEPT !.ops = Append(@, "rename")]
       ELSE UNCHANGED <<fs, cur>>
  /\ oPc' = "write"
  /\ UNCHANGED <<hasher, pos, hash, calls, diag, mainVars>>

(* output: if !nobackup { backup_file(path)? }, the rename succeeding or not needed *)
Backup ==
  /\ oPc = "backup"
  /\ IF ~nobackup /\ CanOpen(CurPath)
       THEN /\ fs' = [fs EXCEPT ![BackupPath(CurPath)] = fs[CurPath], ![CurPath] = Nothing]
            /\ cur' = [cur EXCEPT !.ops = Append(@, "rename")]
       ELSE UNCHANGED <<fs, cur>>
  /\ oPc' = "write"
  /\ UNCHANGED <<hasher, pos, hash, calls, diag, mainVars>>

BackupErrIgnored ==
  /\ oPc = "backup"
  /\ ~nobackup
  /\ CanOpen(CurPath)
  /\ oPc' = "write"
  /\ cur' = [cur EXCEPT !.ops = Append(@, "rename_failed")]
  /\ UNCHANGED <<fs, hasher, pos, hash, calls, diag, mainVars>>

(* backup_file: rename(path, backup_path)? fails, nothing was renamed;      *)
(* output adds "Error backing up file <path>" and returns the error         *)
BackupErr ==
  /\ oPc = "backup"
  /\ ~nobackup
  /\ CanOpen(CurPath)
  /\ oPc' = "idle"
  /\ cur' = [Returned("err", [stage |-> "backup", path |-> Some(CurPath)], fs)
               EXCEPT !.ops = Append(@, "rename_failed")]
  /\ calls' = Append(calls, cur')
  /\ mPc' = "failed"
  /\ mErr' = cur'.err
  /\ UNCHANGED <<fs, hasher, pos, hash, diag, templates, dryrun, nobackup, verbosity, tIdx>>

(* output: write(path, contents)?; Ok(()) *)
Write ==
  /\ oPc = "write"
  /\ fs' = [fs EXCEPT ![CurPath] =
              File(CurContents, IF fs[CurPath] = Nothing THEN TRUE ELSE fs[CurPath].v.readable)]
  /\ oPc' = "idle"
  /\ cur' = [Returned("ok", Nothing, fs') EXCEPT !.ops = Append(@, "write")]
  /\ calls' = Append(calls, cur')
  /\ tIdx' = tIdx + 1
  /\ UNCHANGED <<hasher, pos, hash, diag, templates, dryrun, nobackup, verbosity, mPc, mErr>>

(* what a failed write(path, contents) may leave at path: the file as it    *)
(* was (it could not be created or opened), or the file truncated and       *)
(* filled with less than the contents                                       *)
FailedWriteLeaves(file, contents) ==
  {file} \cup {File(SubSeq(contents, 1, n), IF file = Nothing THEN TRUE ELSE file.v.readable) :
                 n \in 0..(Len(contents) - 1)}

(* output: write(path, contents)? fails; the error gets no context *)
WriteErr ==
  /\ oPc = "write"
  /\ \E left \in FailedWriteLeaves(fs[CurPath], CurContents) :
       fs' = [fs EXCEPT ![CurPath] = left]
  /\ oPc' = "idle"
  /\ cur' = Returned("err", [stage |-> "write", path |-> Nothing], fs')
  /\ calls' = Append(calls, cur')
  /\ mPc' = "failed"
  /\ mErr' = cur'.err
  /\ UNCHANGED <<hasher, pos, hash, diag, templates, dryrun, nobackup, verbosity, tIdx>>

(* ---------------- main: the template loop ---------------- *)
ShouldOutputAlways == TRUE

(* if !opt.dryrun { output::output(...)?; } *)
ShouldOutput == ~dryrun

(* the template is rendered into result, then output is called *)
MainOutput ==
  /\ mPc = "loop"
  /\ oPc = "idle"
  /\ tIdx <= Len(templates)
  /\ ShouldOutput
  /\ oPc' = "hash_open"
  /\ cur' = [path |-> templates[tIdx].out, contents |-> templates[tIdx].result,
             pre |-> fs, post |-> fs, ops |-> <<>>, compared |-> FALSE,
             res |-> "running", err |-> Nothing]
  /\ UNCHANGED <<fs, hasher, pos, hash, calls, diag, mainVars>>

(* the template is rendered into result and, in a dry run, dropped *)
MainSkipOutput ==
  /\ mPc = "loop"
  /\ oPc = "idle"
  /\ tIdx <= Len(templates)
  /\ ~ShouldOutput
  /\ tIdx' = tIdx + 1
  /\ UNCHANGED <<outVars, templates, dryrun, nobackup, verbosity, mPc, mErr>>

(* File::open(&template_path)? or render_template_source_to_write(..)? fails *)
MainRenderErr ==
  /\ mPc = "loop"
  /\ oPc = "idle"
  /\ tIdx <= Len(templates)
  /\ mPc' = "failed"
  /\ mErr' = [stage |-> "render", path |-> Some(templates[tIdx].src)]
  /\ UNCHANGED <<outVars, templates, dryrun, nobackup, verbosity, tIdx>>

(* Ok(()) *)
MainReturn ==
  /\ mPc = "loop"
  /\ oPc = "idle"
  /\ tIdx > Len(templates)
  /\ mPc' = "done"
  /\ UNCHANGED <<outVars, templates, dryrun, nobackup, verbosity, tIdx, mErr>>

(* ---------------- inputs: configuration and what the services hold ---------------- *)
Entry(n, v) == [name |-> n, value |-> v]
Page(ps) == [parameters |-> ps]

A == <<"a">>
B == <<"b">>

PageKinds ==
  {Page(Nothing), Page(Some(<<>>))}
    \cup {Page(Some(<<e>>)) : e \in {Entry(Nothing, "1"), Entry(Some(A), None),
                                     Entry(Some(A), "1"), Entry(Some(B), "2")}}
    \cup {Page(Some(<<Entry(Some(A), "1"), Entry(Some(A), "2")>>)),
          Page(Some(<<Entry(Some(A), "2"), Entry(Some(B), "1")>>))}

SmallPageKinds ==
  {Page(Some(<<>>)), Page(Some(<<Entry(Some(A), "1")>>)), Page(Some(<<Entry(Some(A), "2")>>)),
   Page(Some(<<Entry(Some(B), "1")>>))}

PrefixLists ==
  {<<>>, <<<<"/", "p">>>>, <<<<"/", "p", "/">>>>, <<<<"/", "p", "/", "/">>>>,
   <<<<"/", "q">>, <<"/", "p", "/">>>>}

SmallPrefixLists == {<<>>, <<<<"/", "p", "/">>>>}

(* every prefix has at least one page (the last page of a prefix carries no  *)
(* cursor); n prefixes share at most total pages                            *)
RECURSIVE PageAssignments(_, _, _)
PageAssignments(n, kinds, total) ==
  IF n = 0 THEN {<<>>}
  ELSE UNION {{<<ps>> \o rest : ps \in [1..k -> kinds],
                                rest \in PageAssignments(n - 1, kinds, total - k)} :
                k \in 1..(total - (n - 1))}

PSInputs(lists, kinds, total) ==
  UNION {{[prefixes |-> l, pages |-> pp] : pp \in PageAssignments(Len(l), kinds, total)} :
           l \in lists}

JString(v) == [t |-> "string", v |-> v]
JOther == [t |-> "other"]

Objects(vals) == UNION {[d -> vals] : d \in SUBSET {A, B}}

Outcome(k) == [kind |-> k]
ObjOutcome(o) == [kind |-> "object", obj |-> o]

(* a JSON object may have the empty string as a member name: {"": "1"} *)
EmptyName == <<>>

OutcomeKinds ==
  {Outcome("notfound"), Outcome("error"), Outcome("nostring"), Outcome("notobject")}
    \cup {ObjOutcome(o) : o \in Objects({JString("1"), JString("2"), JOther})}
    \cup {ObjOutcome([k \in {EmptyName} |-> JString("1")])}

SmallOutcomeKinds ==
  {Outcome("notfound"), Outcome("error")}
    \cup {ObjOutcome(o) : o \in {[k \in {A} |-> JString("1")], [k \in {A} |-> JString("2")],
                                 [k \in {B} |-> JString("2")],
                                 [k \in {EmptyName} |-> JString("1")]}}

SecretIds(n) == [i \in 1..n |-> i]

SMInputs(kinds, n) ==
  UNION {{[secrets |-> SecretIds(k), outcomes |-> oo] : oo \in [1..k -> kinds]} : k \in 0..n}

PSStart(in) ==
  /\ prefixes = in.prefixes
  /\ pages = in.pages
  /\ psIdx = 1
  /\ next_token = Nothing
  /\ psData = EmptyMap
  /\ psPc = "run"
  /\ psReqs = <<>>

SMStart(in) ==
  /\ secrets = in.secrets
  /\ outcomes = in.outcomes
  /\ smIdx = 1
  /\ smData = EmptyMap
  /\ smPc = "run"
  /\ smReqs = <<>>
  /\ smWarn = 0

GPStart ==
  /\ gpPc = "join"
  /\ gpRes = Pending

NoPS == [prefixes |-> <<>>, pages |-> <<>>]
NoSM == [secrets |-> <<>>, outcomes |-> <<>>]

KeyChars == {".", "a"}

Keys == SeqsUpTo(KeyChars, MaxKeyLen)

RECURSIVE SubsetsUpTo(_, _)
SubsetsUpTo(S, n) ==
  IF n = 0 THEN {{}}
  ELSE LET smaller == SubsetsUpTo(S, n - 1)
       IN smaller \cup {x \cup {k} : x \in smaller, k \in S}

(* The builder never looks into a value: every key gets a value of its own, *)
(* so that a leaf of the document tells which key wrote it.                 *)
ValueOf(k) == <<"=">> \o k

PropertyMaps == {[k \in d |-> ValueOf(k)] : d \in SubsetsUpTo(Keys, MaxKeys)}

BuildStartState(d) ==
  /\ data = d
  /\ sorted_keys = <<>>
  /\ bIdx = 1
  /\ result = EmptyDoc
  /\ warnings = <<>>
  /\ bPc = "start"

Paths == {<<"p">>}

FileNames == Paths \cup {BackupPath(q) : q \in Paths}

Contents == {<<>>, <<"x">>, <<"y">>, <<"x", "y">>, <<"x", "y", "x">>, <<"x", "y", "x", "y">>}

TemplateSpecs == {[src |-> <<"t">>, out |-> q, result |-> c] : q \in Paths, c \in Contents}

(* destinations: absent, or any content, readable or not; some hold a backup *)
FileSystems ==
  {[n \in FileNames |-> IF n \in Paths THEN d[n] ELSE b[n]] :
     d \in [Paths -> {Nothing} \cup {File(c, r) : c \in Contents, r \in BOOLEAN}],
     b \in [FileNames \ Paths -> {Nothing, File(<<"y">>, TRUE)}]}

NoCall == [res |-> "none"]

MainStart(ts, f, dry, nob, verb) ==
  /\ templates = ts
  /\ fs = f
  /\ dryrun = dry
  /\ nobackup = nob
  /\ verbosity = verb
  /\ tIdx = 1
  /\ mPc = "loop"
  /\ mErr = Nothing
  /\ oPc = "idle"
  /\ hasher = <<>>
  /\ pos = 0
  /\ hash = Nothing
  /\ cur = NoCall
  /\ calls = <<>>
  /\ diag = <<>>

MainIdle == MainStart(<<>>, [n \in FileNames |-> Nothing], FALSE, FALSE, 0)

vars == <<psVars, smVars, gpVars, buildVars, mainVars, outVars>>

(* get_parameterstore_properties on its own *)
InitPS ==
  /\ \E in \in PSInputs(PrefixLists, PageKinds, MaxPages) : PSStart(in)
  /\ SMStart(NoSM)
  /\ GPStart
  /\ BuildStartState(EmptyMap)
  /\ MainIdle

NextPS ==
  \/ PSFetchOk /\ UNCHANGED <<smVars, gpVars, buildVars, mainVars, outVars>>
  \/ PSFetchErr /\ UNCHANGED <<smVars, gpVars, buildVars, mainVars, outVars>>
  \/ PSReturn /\ UNCHANGED <<smVars, gpVars, buildVars, mainVars, outVars>>

SpecPS == InitPS /\ [][NextPS]_vars

(* get_secretsmanager_properties on its own *)
InitSM ==
  /\ PSStart(NoPS)
  /\ \E in \in SMInputs(OutcomeKinds, MaxSecrets) : SMStart(in)
  /\ GPStart
  /\ BuildStartState(EmptyMap)
  /\ MainIdle

NextSM ==
  \/ SMFetch /\ UNCHANGED <<psVars, gpVars, buildVars, mainVars, outVars>>
  \/ SMReturn /\ UNCHANGED <<psVars, gpVars, buildVars, mainVars, outVars>>

SpecSM == InitSM /\ [][NextSM]_vars

(* get_properties: the two fetches interleave at their requests *)
InitGet ==
  /\ \E in \in PSInputs(SmallPrefixLists, SmallPageKinds, MaxGetPages) : PSStart(in)
  /\ \E in \in SMInputs(SmallOutcomeKinds, MaxGetSecrets) : SMStart(in)
  /\ GPStart
  /\ BuildStartState(EmptyMap)
  /\ MainIdle

NextGet ==
  \/ PSFetchOk /\ UNCHANGED <<smVars, gpVars, buildVars, mainVars, outVars>>
  \/ PSFetchErr /\ UNCHANGED <<smVars, gpVars, buildVars, mainVars, outVars>>
  \/ PSReturn /\ UNCHANGED <<smVars, gpVars, buildVars, mainVars, outVars>>
  \/ SMFetch /\ UNCHANGED <<psVars, gpVars, buildVars, mainVars, outVars>>
  \/ SMReturn /\ UNCHANGED <<psVars, gpVars, buildVars, mainVars, outVars>>
  \/ GPJoin
  \/ GPFinish

SpecGet == InitGet /\ [][NextGet]_vars

(* build_template_model on its own *)
InitBuild ==
  /\ PSStart(NoPS)
  /\ SMStart(NoSM)
  /\ GPStart
  /\ \E d \in PropertyMaps : BuildStartState(d)
  /\ MainIdle

NextBuild ==
  \/ BuildStart /\ UNCHANGED <<psVars, smVars, gpVars, mainVars, outVars>>
  \/ BuildInsert /\ UNCHANGED <<psVars, smVars, gpVars, mainVars, outVars>>
  \/ BuildReturn /\ UNCHANGED <<psVars, smVars, gpVars, mainVars, outVars>>

SpecBuild == InitBuild /\ [][NextBuild]_vars

(* main's template loop with the output writer *)
InitMain ==
  /\ PSStart(NoPS)
  /\ SMStart(NoSM)
  /\ GPStart
  /\ BuildStartState(EmptyMap)
  /\ \E ts \in SeqsUpTo(TemplateSpecs, MaxTemplates), f \in FileSystems,
        dry \in BOOLEAN, nob \in BOOLEAN, verb \in {0, 1} :
       MainStart(ts, f, dry, nob, verb)

OtherVars == <<psVars, smVars, gpVars, buildVars>>

NextMain ==
  \/ MainOutput /\ UNCHANGED OtherVars
  \/ MainSkipOutput /\ UNCHANGED OtherVars
  \/ MainRenderErr /\ UNCHANGED OtherVars
  \/ MainReturn /\ UNCHANGED OtherVars
  \/ HashOpen /\ UNCHANGED OtherVars
  \/ HashRead /\ UNCHANGED OtherVars
  \/ HashReadErr /\ UNCHANGED OtherVars
  \/ Compare /\ UNCHANGED OtherVars
  \/ Backup /\ UNCHANGED OtherVars
  \/ BackupErr /\ UNCHANGED OtherVars
  \/ Write /\ UNCHANGED OtherVars
  \/ WriteErr /\ UNCHANGED OtherVars

SpecMain == InitMain /\ [][NextMain]_vars

(* ======================= properties ======================= *)

(* C1: when both fetches succeed, the merged map holds the secrets-source   *)
(* value for every key of the secrets-source map, the parameter-source      *)
(* value for a key only the parameter-source map has, and no other key,     *)
(* whatever the interleaving of the two fetches was.                        *)
C1_SecretsTakePrecedence ==
  (gpRes.pending = FALSE /\ gpRes.ok) =>
     /\ DOMAIN gpRes.data = (DOMAIN psData) \cup (DOMAIN smData)
     /\ \A k \in DOMAIN gpRes.data :
          gpRes.data[k] = IF k \in DOMAIN smData THEN smData[k] ELSE psData[k]

C1_Witness ==
  /\ gpRes.pending = FALSE
  /\ gpRes.ok
  /\ \E k \in (DOMAIN psData) \cap (DOMAIN smData) : psData[k] # smData[k]
  /\ (DOMAIN psData) \ (DOMAIN smData) # {}

(* C7: get_properties surfaces nothing and starts no merge before both      *)
(* fetches have completed; with both failed it returns the parameter-store  *)
(* error, with one failed that one's error.                                 *)
C7_JoinWaitsForBoth ==
  /\ gpPc # "join" => (psPc # "run" /\ smPc # "run")
  /\ gpRes.pending => gpPc # "done"
  /\ gpRes.pending = FALSE =>
       /\ psPc # "run" /\ smPc # "run"
       /\ psPc = "err" => (~gpRes.ok /\ gpRes.err = "ps")
       /\ (psPc = "ok" /\ smPc = "err") => (~gpRes.ok /\ gpRes.err = "sm")
       /\ (psPc = "ok" /\ smPc = "ok") => gpRes.ok

C7_Witness ==
  /\ gpRes.pending = FALSE
  /\ psPc = "err"
  /\ smPc = "err"
  /\ gpRes.err = "ps"
  /\ Len(smReqs) > 1

(* C8: get_secretsmanager_properties fetches the identifiers in list order, *)
(* goes on after a not-found, returns an error exactly when some fetch      *)
(* fails otherwise, and fetches nothing after that failure.                 *)
FatalOutcomes == {i \in 1..Len(outcomes) : outcomes[i].kind = "error"}

C8_NotFoundTolerated ==
  /\ Len(smReqs) <= Len(secrets)
  /\ smReqs = SubSeq(secrets, 1, Len(smReqs))
  /\ \A i \in FatalOutcomes : Len(smReqs) <= i
  /\ smPc = "err" => Len(smReqs) \in FatalOutcomes
  /\ smPc = "ok" => (FatalOutcomes = {} /\ Len(smReqs) = Len(secrets))
  /\ smPc = "run" => Len(smReqs) \notin FatalOutcomes

C8_Witness ==
  /\ smPc = "ok"
  /\ Len(secrets) = 2
  /\ outcomes[1].kind = "notfound"
  /\ outcomes[2].kind = "object"
  /\ Len(smReqs) = 2
  /\ smData # EmptyMap

(* C9: per prefix the first request carries no cursor, each later one the   *)
(* cursor of the previous response, the first response without a cursor     *)
(* ends the prefix; the map holds every entry that has a name and a value   *)
(* under its name less the prefix and separator, and nothing else.          *)
RECURSIVE FlatPages(_)
FlatPages(ps) ==
  IF ps = <<>> THEN <<>>
  ELSE (IF Head(ps).parameters = Nothing THEN <<>> ELSE Head(ps).parameters.v)
         \o FlatPages(Tail(ps))

RECURSIVE FlatEntries(_)
FlatEntries(pp) == IF pp = <<>> THEN <<>> ELSE FlatPages(Head(pp)) \o FlatEntries(Tail(pp))

RECURSIVE TotalPages(_)
TotalPages(pp) == IF pp = <<>> THEN 0 ELSE Len(Head(pp)) + TotalPages(Tail(pp))

Complete(e) == e.name # Nothing /\ e.value # None

CursorDiscipline ==
  \A n \in 1..Len(psReqs) :
    LET r == psReqs[n]
    IN IF n = 1
         THEN r.token = Nothing /\ r.idx = 1
         ELSE LET q == psReqs[n - 1]
              IN /\ ~q.failed
                 /\ IF q.cursor = Nothing
                      THEN r.idx = q.idx + 1 /\ r.token = Nothing
                      ELSE r.idx = q.idx /\ r.token = q.cursor

C9_PaginationAndKeys ==
  /\ CursorDiscipline
  /\ psPc = "ok" =>
       LET es == FlatEntries(pages)
       IN /\ Len(psReqs) = TotalPages(pages)
          /\ \A n \in 1..Len(es) :
               Complete(es[n]) =>
                 /\ es[n].name.v \in DOMAIN psData
                 /\ (\A m \in (n + 1)..Len(es) :
                        Complete(es[m]) => es[m].name.v # es[n].name.v)
                      => psData[es[n].name.v] = es[n].value
          /\ \A k \in DOMAIN psData :
               \E n \in 1..Len(es) : Complete(es[n]) /\ es[n].name.v = k

C9_Witness ==
  /\ psPc = "ok"
  /\ \E n \in 1..Len(psReqs) : psReqs[n].token # Nothing
  /\ \E e \in {FlatEntries(pages)[n] : n \in 1..Len(FlatEntries(pages))} : ~Complete(e)
  /\ Cardinality(DOMAIN psData) = 2

(* ---- model builder ---- *)
StrictDottedPrefix(a, k) ==
  /\ Len(Split(a)) < Len(Split(k))
  /\ SubSeq(Split(k), 1, Len(Split(a))) = Split(a)

WarnedKeys == {warnings[i] : i \in 1..Len(warnings)}

Occurrences(seq, x) == Cardinality({i \in 1..Len(seq) : seq[i] = x})

Position(k) == CHOOSE i \in 1..Len(sorted_keys) : sorted_keys[i] = k

HoldsLeaf(k) == Split(k) \in DOMAIN result /\ result[Split(k)] = StringNode(data[k])

(* C4: once a key k has been processed, and no strict dotted prefix of k    *)
(* was inserted as a leaf before it, the node at k's dot-segments is the    *)
(* leaf with k's value, in the returned document and after every later key. *)
C4_InsertedKeyIsLeaf ==
  bPc \in {"loop", "done"} =>
    \A i \in 1..(bIdx - 1) :
      LET k == sorted_keys[i]
      IN (\A j \in 1..(i - 1) :
            ~(StrictDottedPrefix(sorted_keys[j], k) /\ sorted_keys[j] \notin WarnedKeys))
           => HoldsLeaf(k)

C4_Witness ==
  /\ bPc = "done"
  /\ warnings # <<>>
  /\ \E k \in DOMAIN data : Len(Split(k)) = 3 /\ HoldsLeaf(k)
  /\ \E k \in DOMAIN data : Len(Split(k)) = 2 /\ HoldsLeaf(k)

Extensions(a) == {k \in DOMAIN data : StrictDottedPrefix(a, k)}

ConflictResolved(a) ==
  /\ \A k \in Extensions(a) : Position(a) < Position(k)
  /\ HoldsLeaf(a)
  /\ \A k \in Extensions(a) : Split(k) \notin DOMAIN result
  /\ \A k \in Extensions(a) : Occurrences(warnings, k) = 1

(* C5 as stated: every key a of the map that other keys extend ends up as   *)
(* a leaf, its extensions are absent and warned about once each.            *)
C5_AsStated ==
  bPc = "done" => \A a \in DOMAIN data : Extensions(a) # {} => ConflictResolved(a)

(* C5, amended: the same for every key a that other keys extend and that    *)
(* itself extends no key of the map: a is processed before its extensions,  *)
(* is a leaf with its value, the extensions are absent from the document    *)
(* and each is named by exactly one conflict warning.                       *)
C5_TopmostKeyWins ==
  bPc = "done" =>
    \A a \in DOMAIN data :
      (Extensions(a) # {} /\ ~\E b \in DOMAIN data : StrictDottedPrefix(b, a))
        => ConflictResolved(a)

C5_Witness ==
  /\ bPc = "done"
  /\ \E a \in DOMAIN data :
       /\ a # <<>>
       /\ Cardinality(Extensions(a)) = 2
       /\ ConflictResolved(a)
       /\ Len(warnings) = 2

(* ---- output writer ---- *)
CompletedOk == {i \in 1..Len(calls) : calls[i].res = "ok"}

Wrote(c) == \E n \in 1..Len(c.ops) : c.ops[n] = "write"

HeldBefore(c, bytes) == c.pre[c.path] # Nothing /\ c.pre[c.path].v.bytes = bytes

(* C2 as stated: a call of output that does not fail writes the destination *)
(* exactly when no file existed or its content differed from the new        *)
(* content, and with equal content it neither writes nor renames.           *)
C2_AsStated ==
  \A i \in CompletedOk :
    LET c == calls[i]
    IN /\ Wrote(c) <=> (c.pre[c.path] = Nothing \/ ~HeldBefore(c, c.contents))
       /\ HeldBefore(c, c.contents) => c.ops = <<>>

(* C3 as stated: with backups enabled, a call whose content differs from    *)
(* what the destination holds leaves the new content at the destination and *)
(* the content held before the call at <path>~.                             *)
C3_AsStated ==
  ~nobackup =>
    \A i \in CompletedOk :
      LET c == calls[i]
      IN (c.pre[c.path] # Nothing /\ ~HeldBefore(c, c.contents)) =>
           /\ c.post[c.path] # Nothing
           /\ c.post[c.path].v.bytes = c.contents
           /\ c.post[BackupPath(c.path)] # Nothing
           /\ c.post[BackupPath(c.path)].v.bytes = c.pre[c.path].v.bytes

(* C10 as stated: output(path, c) twice in a row on a path where no file    *)
(* exists writes once: the second call does not write or rename and leaves  *)
(* the destination and <path>~ as the first call left them.                 *)
C10_AsStated ==
  \A i \in 1..(Len(calls) - 1) :
    LET c == calls[i]
        d == calls[i + 1]
    IN (/\ c.res = "ok" /\ d.res = "ok"
        /\ c.path = d.path /\ c.contents = d.contents
        /\ c.pre[c.path] = Nothing)
         => /\ Wrote(c)
            /\ d.ops = <<>>
            /\ d.post = c.post

C11_DryRunLeavesFiles == [][dryrun => fs' = fs]_vars

C11_Witness ==
  /\ dryrun
  /\ ~nobackup
  /\ mPc = "done"
  /\ tIdx = 3
  /\ LET q == templates[1].out
     IN /\ CanOpen(q)
        /\ fs[q].v.bytes # templates[1].result
        /\ fs[q].v.bytes = templates[2].result
        /\ fs[BackupPath(q)] # Nothing

(* ---- keys of the maps ---- *)
(* C12 as stated: no key of the parameter-source map, of the secrets-source *)
(* map or of the merged PropertyMap is the empty string.                    *)
C12_AsStated ==
  /\ <<>> \notin DOMAIN psData
  /\ <<>> \notin DOMAIN smData
  /\ (gpPc = "done" /\ gpRes.ok) => <<>> \notin DOMAIN gpRes.data

(* ---- errors of output ---- *)
OpenFailedOnExisting(c) == c.pre[c.path] # Nothing /\ ~c.pre[c.path].v.readable

(* C13 as stated: a call of output in which opening or reading the existing *)
(* file fails, or writing the new content fails, ends with a fatal error,   *)
(* and that error carries the destination path.                             *)
C13_AsStated ==
  \A i \in 1..Len(calls) :
    LET c == calls[i]
    IN /\ OpenFailedOnExisting(c) => c.res = "err"
       /\ (c.res = "err" /\ c.err.stage \in {"hash", "write"}) => c.err.path = Some(c.path)

(* ---- determinism of the build ---- *)
(* the loop of build_template_model over a given sequence of keys: the      *)
(* document and the warnings after the first n of them                      *)
RECURSIVE InsertedInOrder(_, _, _)
InsertedInOrder(d, keys, n) ==
  IF n = 0 THEN [doc |-> EmptyDoc, warn |-> <<>>]
  ELSE LET before == InsertedInOrder(d, keys, n - 1)
           r == insert_with_path(before.doc, <<>>, Split(keys[n]), 1, d[keys[n]])
       IN [doc |-> r.doc, warn |-> before.warn \o r.warn]

(* build_template_model(data) when data.keys() enumerates in the order enumerated *)
build_template_model(d, enumerated) ==
  InsertedInOrder(d, Sort(enumerated), Len(enumerated))

(* C14: whatever order the source map enumerates its keys in, sorting      *)
(* gives the key list this build used, and the build over that list         *)
(* returns the document and the warnings this build returned: every build   *)
(* of the same PropertyMap returns the same document and warnings.          *)
C14_BuildIsDeterministic ==
  bPc = "done" =>
    /\ \A e \in Enumerations(DOMAIN data) : Sort(e) = sorted_keys
    /\ build_template_model(data, sorted_keys) = [doc |-> result, warn |-> warnings]

(* a finished build of three keys for which the order of insertion matters: *)
(* inserting them in some enumeration order unsorted gives another outcome  *)
C14_Witness ==
  /\ bPc = "done"
  /\ Cardinality(DOMAIN data) = 3
  /\ Len(warnings) = 1
  /\ \E e \in Enumerations(DOMAIN data) :
       InsertedInOrder(data, e, Len(e)) # [doc |-> result, warn |-> warnings]

(* ---- hash_file ---- *)
(* C15 as stated: the digest hash_file returns for an existing file is the  *)
(* digest of all its bytes, however the reads return them, and so equals    *)
(* the digest of the new content exactly when the contents are equal.       *)
C15_AsStated ==
  (oPc = "compare" /\ hash # Nothing) =>
    /\ hash.v = Digest(fs[CurPath].v.bytes)
    /\ (hash.v = Digest(CurContents)) <=> (fs[CurPath].v.bytes = CurContents)

(* ---- leaves and mappings of the document ---- *)
Parent(p) == SubSeq(p, 1, Len(p) - 1)

(* only a mapping has nodes below it: no node is both a leaf and a mapping *)
LeavesHaveNoChildren(doc) ==
  \A p \in DOMAIN doc : p # <<>> => (Parent(p) \in DOMAIN doc /\ doc[Parent(p)].obj)

(* C16: no step of a build replaces or removes a mapping node of the        *)
(* document (a simple key never overrides a mapping), and after every step  *)
(* no leaf of the document has nodes below it.                              *)
C16_MappingNeverOverridden ==
  [][/\ \A p \in DOMAIN result : result[p].obj => (p \in DOMAIN result' /\ result'[p].obj)
     /\ LeavesHaveNoChildren(result')]_vars

(* a finished build without conflicts in which a mapping got two leaves,    *)
(* one of them under an empty segment, next to a top-level empty segment    *)
C16_Witness ==
  /\ bPc = "done"
  /\ warnings = <<>>
  /\ Cardinality(DOMAIN data) = 3
  /\ \E p \in DOMAIN result :
       /\ Len(p) = 1
       /\ result[p].obj
       /\ Append(p, <<>>) \in DOMAIN result /\ ~result[Append(p, <<>>)].obj
       /\ Append(p, <<"a">>) \in DOMAIN result /\ ~result[Append(p, <<"a">>)].obj
  /\ \E p \in DOMAIN result : Len(p) = 2 /\ p[1] = <<>>

(* ---- abandoned keys ---- *)
(* C17: a step of the build that abandons its key (it adds the warning)     *)
(* leaves the document exactly as it was: no mapping was created for the    *)
(* key and no node was changed.                                             *)
C17_AbandonedKeyChangesNothing == [][warnings' # warnings => result' = result]_vars

(* a finished build that abandoned a key of three segments whose second     *)
(* segment is a leaf below an existing mapping, and inserted the other keys *)
C17_Witness ==
  /\ bPc = "done"
  /\ Cardinality(DOMAIN data) = 3
  /\ Len(warnings) = 1
  /\ LET path == Split(warnings[1])
     IN /\ Len(path) = 3
        /\ result[<<path[1]>>].obj
        /\ <<path[1], path[2]>> \in DOMAIN result
        /\ ~result[<<path[1], path[2]>>].obj
        /\ Cardinality(DOMAIN result) = 4

(* ---- requested paths ---- *)
EndsInExactlyOneSeparator(path) ==
  /\ Len(path) >= 1
  /\ path[Len(path)] = Slash
  /\ Len(path) >= 2 => path[Len(path) - 1] # Slash

(* C18 as stated: the path of every request of                              *)
(* get_parameterstore_properties ends in exactly one trailing separator,    *)
(* for configured prefixes with zero, one or several trailing separators.   *)
C18_AsStated ==
  \A i \in 1..Len(psReqs) : EndsInExactlyOneSeparator(psReqs[i].path)

(* ---- failed backup ---- *)
RenameFailed(c) == \E n \in 1..Len(c.ops) : c.ops[n] = "rename_failed"

(* C19: once the rename of the existing file to <path>~ has failed, the     *)
(* call of output has returned a fatal error without writing, and the       *)
(* destination and the prior <path>~ are as they were when the call began.  *)
C19_FailedBackupStopsOutput ==
  /\ (cur # NoCall /\ RenameFailed(cur)) =>
       /\ oPc = "idle"
       /\ cur.res = "err"
       /\ mPc = "failed"
       /\ mErr = [stage |-> "backup", path |-> Some(cur.path)]
       /\ fs = cur.pre
  /\ \A i \in 1..Len(calls) :
       RenameFailed(calls[i]) =>
         /\ calls[i].res = "err"
         /\ ~Wrote(calls[i])
         /\ calls[i].post = calls[i].pre

(* the second template's backup failed where the destination held other     *)
(* content than the new one and a prior backup existed                      *)
C19_Witness ==
  /\ Len(calls) = 2
  /\ RenameFailed(calls[2])
  /\ LET c == calls[2]
     IN /\ c.pre[c.path].v.bytes # c.contents
        /\ c.pre[BackupPath(c.path)] # Nothing
        /\ c.pre[BackupPath(c.path)].v.bytes # c.pre[c.path].v.bytes
        /\ fs = c.pre

(* ---- the old content survives ---- *)
Holds(f, name, bytes) == f[name] # Nothing /\ f[name].v.bytes = bytes

(* C20: with backups enabled, from the start of a call of output on a       *)
(* readable destination file, in every state of the call (so wherever the   *)
(* run stops: between the rename and the write, after a failed write) and   *)
(* after it, the content the destination held when the call started is at   *)
(* the destination or at <path>~.                                           *)
C20_OldContentNeverLost ==
  (/\ cur # NoCall
   /\ ~nobackup
   /\ cur.pre[cur.path] # Nothing
   /\ cur.pre[cur.path].v.readable) =>
    LET old == cur.pre[cur.path].v.bytes
    IN Holds(fs, cur.path, old) \/ Holds(fs, BackupPath(cur.path), old)

(* the write failed after the rename: the destination holds a truncated     *)
(* part of the new content, <path>~ the old content in place of the prior   *)
(* backup                                                                   *)
C20_Witness ==
  /\ cur # NoCall
  /\ ~nobackup
  /\ cur.res = "err"
  /\ cur.err.stage = "write"
  /\ cur.ops = <<"rename">>
  /\ cur.pre[BackupPath(cur.path)] # Nothing
  /\ ~Holds(cur.pre, BackupPath(cur.path), cur.pre[cur.path].v.bytes)
  /\ fs[cur.path] # Nothing
  /\ ~Holds(fs, cur.path, cur.pre[cur.path].v.bytes)
  /\ Holds(fs, BackupPath(cur.path), cur.pre[cur.path].v.bytes)

====
